---- MODULE Spec2Model ----
(***************************************************************************)
(* A model of main.py: the keyword matcher, the duplicate store kept in    *)
(* forwarded_messages.json, one poll cycle (get_chat_messages_by_time) and *)
(* the hourly scheduler loop (run_scheduler).                              *)
(*                                                                         *)
(* Strings are sequences of one-character strings.  Time is counted in     *)
(* units of TimeUnit seconds.  The duplicate store file is a record        *)
(* [kind, items]: what json.load would make of its content.                *)
(***************************************************************************)
EXTENDS Integers, Sequences, FiniteSets, TLC

VARIABLES
    KEYWORDS,               \* main.py:34, the configured keyword list
    file,                   \* content of FORWARDED_MESSAGES_FILE
    chat,                   \* the monitored chat: chat[id] = [date, text]
    clock,                  \* wall clock, in TimeUnit steps
    pc,                     \* where the scheduler / the poll cycle stands
    cycles,                 \* poll cycles started so far
    faults,                 \* environment failures so far
    sleep_for,              \* seconds of the sleep reached after the last cycle
    outcome,                \* how the last cycle ended: none, returned, raised
    cutoff_time,            \* main.py:73
    forwarded_message_ids,  \* main.py:80, the in-memory duplicate store
    loaded_ids,             \* what load_forwarded_messages returned this cycle
    pending,                \* client.iter_messages: ids still to deliver
    seen,                   \* ids the iterator has delivered this cycle
    messages,               \* main.py:109, ids of the text messages in range
    matching_messages,      \* main.py:110
    skipped_messages,       \* main.py:111
    cur,                    \* id of the message being handled, 0 for none
    matching_keywords,      \* main.py:140, for the message last matched
    sent,                   \* this cycle's calls: <<op, id, ok>>
    disconnects,            \* client.disconnect() calls this cycle
    forwarded_ok,           \* ids whose header, forward and store write all succeeded
    failed_ids,             \* ids whose last send/forward attempt failed
    forwarded_before,       \* forwarded_ok as it was when this cycle started
    store_truncated,        \* a failed write has left the store file cut off
    load_call,              \* the cycle's load_forwarded_messages call
    timeline,               \* cycles ended and sleeps slept, in order
    delivered,              \* ids whose header send and forward both succeeded
    exit_path,              \* how the cycle left its try block, main.py:83-201
    environ,                \* os.environ: the three credentials as set
    creds,                  \* API_ID, API_HASH, PHONE_NUMBER, main.py:29-31
    boot,                   \* where the start of the process stands
    store_log               \* the last two store operations (store specification)

vars == <<KEYWORDS, file, chat, clock, pc, cycles, faults, sleep_for, outcome,
          cutoff_time, forwarded_message_ids, loaded_ids, pending, seen,
          messages, matching_messages, skipped_messages, cur,
          matching_keywords, sent, disconnects, forwarded_ok, failed_ids,
          forwarded_before, store_truncated, load_call,
          timeline, delivered, exit_path, environ, creds, boot, store_log>>

----------------------------------------------------------------------------
(* Bounds of the model. *)

MaxMsgs == 2        \* messages ever posted to the chat
MaxCycles == 2      \* poll cycles the scheduler starts
MaxFaults == 2      \* failures the environment injects
MaxCfgLen == 3      \* length of the KEYWORDS configuration string
MaxTextLen == 2     \* length of a message text (matcher specification)
MaxId == 2          \* identifiers of the store specification

(* Program constants. *)

SLEEP_NORMAL == 3600
SLEEP_ERROR == 600
SECONDS_PER_HOUR == 3600
HOURS_BACK == 1

(* Clock granularity: the shortest sleep of the program. *)
TimeUnit == SLEEP_ERROR

Window == (HOURS_BACK * SECONDS_PER_HOUR) \div TimeUnit

----------------------------------------------------------------------------
(* Strings *)

Range(s) == {s[i] : i \in 1..Len(s)}

Alphabet == {"a", "A", "b", ","}

RECURSIVE StringsUpTo(_)
StringsUpTo(n) ==
    IF n = 0 THEN {<<>>}
    ELSE LET shorter == StringsUpTo(n - 1)
         IN  shorter \cup {Append(s, c) : s \in shorter, c \in Alphabet}

(* str.lower() on the model's alphabet *)
LowerChar(c) ==
    CASE c = "A" -> "a"
      [] c = "B" -> "b"
      [] OTHER -> c

Lower(s) == [i \in 1..Len(s) |-> LowerChar(s[i])]

(* Python's `needle in hay` for strings: some offset where needle occurs *)
ContainsNonEmpty(needle, hay) ==
    /\ needle # <<>>
    /\ \E off \in 0..(Len(hay) - Len(needle)) :
          \A i \in 1..Len(needle) : hay[off + i] = needle[i]

Contains(needle, hay) ==
    \E off \in 0..(Len(hay) - Len(needle)) :
        \A i \in 1..Len(needle) : hay[off + i] = needle[i]

(* str.split(","): cut at every comma, empty pieces kept *)
RECURSIVE Split(_)
Split(s) ==
    IF \A i \in 1..Len(s) : s[i] # ","
    THEN <<s>>
    ELSE LET i == CHOOSE j \in 1..Len(s) :
                      s[j] = "," /\ \A k \in 1..(j - 1) : s[k] # ","
         IN  <<SubSeq(s, 1, i - 1)>> \o Split(SubSeq(s, i + 1, Len(s)))

(* os.getenv("KEYWORDS", "").split(","): an unset variable reads as "" *)
ParseKeywords(cfg) == Split(cfg)

----------------------------------------------------------------------------
(* Keyword matcher, main.py:139-143 *)

RECURSIVE MatchLoop(_, _, _, _)
MatchLoop(text_lower, kws, i, acc) ==
    IF i > Len(kws) THEN acc
    ELSE MatchLoop(text_lower, kws, i + 1,
                   IF Contains(Lower(kws[i]), text_lower)
                   THEN Append(acc, kws[i]) ELSE acc)

(* matching_keywords as main.py:139-143 computes it for message.text *)
MatchKeywordsCaseSensitive(text, kws) == MatchLoop(text, kws, 1, <<>>)

MatchKeywords(text, kws) == MatchLoop(Lower(text), kws, 1, <<>>)

----------------------------------------------------------------------------
(* Duplicate store, main.py:43-63 *)

AbsentFile == [kind |-> "absent", items |-> <<>>]
InvalidFile == [kind |-> "invalid", items |-> <<>>]     \* empty or not JSON
NumberFile == [kind |-> "number", items |-> <<>>]       \* e.g. 5
NestedFile == [kind |-> "nested", items |-> <<>>]       \* e.g. [[1, 2]]
(* A JSON object: items are its keys.  A key is a string, never equal to a
   message id; the model writes the i-th key as the negative number -i. *)
ObjectFile(n) == [kind |-> "object", items |-> [i \in 1..n |-> 0 - i]]
ArrayFile(items) == [kind |-> "array", items |-> items]

(* All orderings of a finite set, as sequences without repetition *)
Orderings(S) ==
    {p \in [1..Cardinality(S) -> S] : \A i, j \in 1..Cardinality(S) :
                                          p[i] = p[j] => i = j}

(* load_forwarded_messages: [raised, ids].  set(json.load(f)) raises
   TypeError for a number (not iterable) and for an array of arrays
   (unhashable); only JSONDecodeError and FileNotFoundError are caught. *)
LoadLosesLast(f) ==
    CASE f.kind = "absent" -> [raised |-> FALSE, ids |-> {}]
      [] f.kind = "invalid" -> [raised |-> FALSE, ids |-> {}]
      [] f.kind \in {"number", "nested"} -> [raised |-> TRUE, ids |-> {}]
      [] OTHER -> [raised |-> FALSE,
                   ids |-> {f.items[i] : i \in 1..(Len(f.items) - 1)}]

load_forwarded_messages(f) ==
    CASE f.kind = "absent" -> [raised |-> FALSE, ids |-> {}]
      [] f.kind = "invalid" -> [raised |-> FALSE, ids |-> {}]
      [] f.kind \in {"number", "nested"} -> [raised |-> TRUE, ids |-> {}]
      [] OTHER -> [raised |-> FALSE, ids |-> Range(f.items)]

(* save_forwarded_messages: json.dump(list(ids)); the files it may leave,
   one per order in which list() may enumerate the set *)
SaveDropsOne(ids) ==
    {ArrayFile(p) : p \in UNION {Orderings(ids \ {x}) : x \in ids}}

save_forwarded_messages(ids) == {ArrayFile(p) : p \in Orderings(ids)}

(* add_forwarded_message: the new in-memory set and the files it may leave *)
AddAppendsToFile(ids, message_id) ==
    [ids |-> ids \cup {message_id},
     files |-> {ArrayFile(Append(file.items, message_id))}]

AddAlsoStoresFailed(ids, message_id) ==
    [ids |-> ids \cup {message_id} \cup failed_ids,
     files |-> save_forwarded_messages(ids \cup {message_id} \cup failed_ids)]

add_forwarded_message(ids, message_id) ==
    [ids |-> ids \cup {message_id},
     files |-> save_forwarded_messages(ids \cup {message_id})]

----------------------------------------------------------------------------
(* Credentials, main.py:29-31 and 211 *)

(* os.getenv(name): None when the variable is not set *)
None == [set |-> FALSE, value |-> <<>>]
Str(v) == [set |-> TRUE, value |-> v]

Digits == <<"0", "1", "2", "3", "4", "5", "6", "7", "8", "9">>
IsDigit(c) == \E d \in 1..Len(Digits) : Digits[d] = c
DigitValue(c) == (CHOOSE d \in 1..Len(Digits) : Digits[d] = c) - 1

RECURSIVE Decimal(_)
Decimal(v) ==
    IF v = <<>> THEN 0
    ELSE Decimal(SubSeq(v, 1, Len(v) - 1)) * Len(Digits) + DigitValue(v[Len(v)])

(* int(x): TypeError for None, ValueError for a string that is no number *)
ParseInt(x) ==
    IF x.set /\ x.value # <<>> /\ \A i \in 1..Len(x.value) : IsDigit(x.value[i])
    THEN [raised |-> FALSE, value |-> Decimal(x.value)]
    ELSE [raised |-> TRUE, value |-> 0]

(* Python truthiness: `not x` for a string or None, and for an integer *)
Falsy(x) == ~x.set \/ x.value = <<>>
FalsyInt(n) == n = 0

NoCreds == [API_ID |-> 0, API_HASH |-> None, PHONE_NUMBER |-> None]

ApiIdValues == {None, Str(<<>>), Str(<<"0">>), Str(<<"1", "2">>),
                Str(<<"1", "x">>)}
ApiHashValues == {None, Str(<<>>), Str(<<"h">>)}
PhoneValues == {None, Str(<<>>), Str(<<"+", "1">>)}

ValidEnviron == [API_ID |-> Str(<<"1", "2">>), API_HASH |-> Str(<<"h">>),
                 PHONE_NUMBER |-> Str(<<"+", "1">>)]

(* the module globals as main.py:29-31 leave them when nothing raises *)
LoadedCreds(env) == [API_ID |-> ParseInt(env.API_ID).value,
                     API_HASH |-> env.API_HASH,
                     PHONE_NUMBER |-> env.PHONE_NUMBER]

----------------------------------------------------------------------------
(* The poll cycle and the scheduler *)

(* message.date < cutoff_time is the loop's break test, main.py:115 *)
InRangeExclusive(date, cutoff) == date > cutoff

InRange(date, cutoff) == ~(date < cutoff)

(* message.id in forwarded_message_ids, main.py:147 *)
NeverForwarded(message_id, ids) == FALSE

AlreadyForwarded(message_id, ids) == message_id \in ids

(* Inputs of the main specification *)
ConfigStrings == {<<>>, <<"a">>, <<"a", ",">>}
Texts == {<<>>, <<"A">>, <<"b">>}
InitFiles == {AbsentFile, InvalidFile, NumberFile, NestedFile, ObjectFile(1)}
InitialClock == Window + 1

NoStoreLog == <<>>
NoLoad == [from |-> "none", raised |-> FALSE]

cfgVars == <<KEYWORDS, store_log, environ, creds, boot>>
loopVars == <<pending, seen, messages, matching_messages, skipped_messages,
              cur, matching_keywords>>
histVars == <<forwarded_ok, failed_ids, forwarded_before, store_truncated>>
schedVars == <<cycles, sleep_for, outcome>>

Init ==
    /\ KEYWORDS \in {ParseKeywords(c) : c \in ConfigStrings}
    /\ file \in InitFiles
    /\ chat = <<>>
    /\ clock = InitialClock
    /\ pc = "run"
    /\ cycles = 0
    /\ faults = 0
    /\ sleep_for = 0
    /\ outcome = "none"
    /\ cutoff_time = 0
    /\ forwarded_message_ids = {}
    /\ loaded_ids = {}
    /\ pending = <<>>
    /\ seen = <<>>
    /\ messages = <<>>
    /\ matching_messages = <<>>
    /\ skipped_messages = 0
    /\ cur = 0
    /\ matching_keywords = <<>>
    /\ sent = <<>>
    /\ disconnects = 0
    /\ forwarded_ok = {}
    /\ failed_ids = {}
    /\ forwarded_before = {}
    /\ store_truncated = FALSE
    /\ load_call = NoLoad
    /\ timeline = <<>>
    /\ delivered = {}
    /\ exit_path = "none"
    /\ environ = ValidEnviron
    /\ creds = LoadedCreds(ValidEnviron)
    /\ boot = "scheduler"
    /\ store_log = NoStoreLog

(* The text of a message older than the cutoff is never read (main.py:115
   comes first, and later cutoffs are later): one text stands for all. *)
PostTexts(date) == IF date < clock - Window THEN {<<"A">>} ELSE Texts

NewestDate == IF chat = <<>> THEN 0 ELSE chat[Len(chat)].date

(* Someone posts to the chat while the scheduler sleeps.  Ids and dates grow
   together; the date is one the sleep just ended can have covered. *)
PostMessage ==
    /\ pc = "run"
    /\ Len(chat) < MaxMsgs
    /\ \E date \in {clock - Window - 1, clock - Window, clock} :
       \E text \in PostTexts(date) :
          /\ date >= NewestDate
          /\ date >= (IF cycles = 0 THEN 0 ELSE clock - (sleep_for \div TimeUnit))
          /\ chat' = Append(chat, [date |-> date, text |-> text])
    /\ UNCHANGED <<cfgVars, delivered, file, clock, pc, faults, schedVars,
                   cutoff_time, forwarded_message_ids, loaded_ids, loopVars,
                   sent, disconnects, histVars, load_call, timeline,
                   exit_path>>

Fault == faults < MaxFaults /\ faults' = faults + 1

(* An exception leaves get_chat_messages_by_time: run_scheduler's
   `except Exception`, main.py:310-313 *)
SleepAfterErrorHourly == SLEEP_NORMAL

SleepAfterError == SLEEP_ERROR

RaisedIsFatal ==
    /\ pc' = "dead"
    /\ outcome' = "raised"
    /\ sleep_for' = SleepAfterError
    /\ timeline' = Append(timeline, <<"cycle", "raised">>)

Raised ==
    /\ pc' = "sleep"
    /\ outcome' = "raised"
    /\ sleep_for' = SleepAfterError
    /\ timeline' = Append(timeline, <<"cycle", "raised">>)

(* get_chat_messages_by_time returns: main.py:304-305 *)
Returned ==
    /\ pc' = "sleep"
    /\ outcome' = "returned"
    /\ sleep_for' = SLEEP_NORMAL
    /\ timeline' = Append(timeline, <<"cycle", "returned">>)

(* main.py:298-302 and 69-81: the cycle starts, the client is built and the
   store is loaded *)
PollStart ==
    /\ pc = "run"
    /\ cycles < MaxCycles
    /\ cycles' = cycles + 1
    /\ cutoff_time' = clock - Window
    /\ ~load_forwarded_messages(file).raised
    /\ forwarded_message_ids' = load_forwarded_messages(file).ids
    /\ loaded_ids' = load_forwarded_messages(file).ids
    /\ load_call' = [from |-> file.kind, raised |-> FALSE]
    /\ pc' = "connect"
    /\ UNCHANGED <<cfgVars, delivered, file, chat, clock, faults, sleep_for,
                   outcome, loopVars, sent, disconnects, histVars, timeline,
                   exit_path>>

(* TelegramClient(...) raises, main.py:77, outside the try block *)
CreateClientFails ==
    /\ pc = "run"
    /\ cycles < MaxCycles
    /\ Fault
    /\ cycles' = cycles + 1
    /\ cutoff_time' = clock - Window
    /\ Raised
    /\ UNCHANGED <<cfgVars, delivered, file, chat, clock,
                   forwarded_message_ids, loaded_ids, loopVars, sent,
                   disconnects, histVars, load_call, exit_path>>

(* load_forwarded_messages raises, main.py:80, outside the try block *)
LoadRaises ==
    /\ pc = "run"
    /\ cycles < MaxCycles
    /\ load_forwarded_messages(file).raised
    /\ cycles' = cycles + 1
    /\ cutoff_time' = clock - Window
    /\ load_call' = [from |-> file.kind, raised |-> TRUE]
    /\ Raised
    /\ UNCHANGED <<cfgVars, delivered, file, chat, clock, faults,
                   forwarded_message_ids, loaded_ids, loopVars, sent,
                   disconnects, histVars, exit_path>>

Step(from, to) ==
    /\ pc = from
    /\ pc' = to
    /\ UNCHANGED <<cfgVars, delivered, file, chat, clock, schedVars,
                   cutoff_time, forwarded_message_ids, loaded_ids, sent,
                   disconnects, histVars, load_call, timeline>>

(* How control reaches the `finally` block, main.py:203: by one of the
   `return`s, by the end of the try block, or through the blanket handler *)
LeaveWithoutFinally(from, how) ==
    /\ pc = from
    /\ exit_path' = how
    /\ pc' = "sleep"
    /\ outcome' = "returned"
    /\ sleep_for' = SLEEP_NORMAL
    /\ timeline' = Append(timeline, <<"cycle", "returned">>)
    /\ UNCHANGED <<cfgVars, delivered, file, chat, clock, cycles, cutoff_time,
                   forwarded_message_ids, loaded_ids, sent, disconnects,
                   histVars, load_call>>

Leave(from, how) == Step(from, "finally") /\ exit_path' = how

Stay(from, to) == Step(from, to) /\ UNCHANGED exit_path

(* main.py:85 *)
Connect == Stay("connect", "auth") /\ UNCHANGED <<faults, loopVars>>

(* connect() raises: the blanket handler, main.py:200-201 *)
ConnectFails ==
    Leave("connect", "connect_error") /\ Fault /\ UNCHANGED loopVars

(* main.py:88 *)
Authorized == Stay("auth", "get_chat") /\ UNCHANGED <<faults, loopVars>>

(* main.py:88-90 *)
NotAuthorized ==
    Leave("auth", "not_authorized") /\ Fault /\ UNCHANGED loopVars

(* main.py:93-95 *)
GetChat == Stay("get_chat", "get_target") /\ UNCHANGED <<faults, loopVars>>

(* main.py:96-98 *)
GetChatFails ==
    Leave("get_chat", "chat_not_found") /\ Fault /\ UNCHANGED loopVars

(* client.iter_messages(chat) yields the newest message first *)
OldestFirst(c) == [i \in 1..Len(c) |-> i]

IterationOrder(c) == [i \in 1..Len(c) |-> Len(c) + 1 - i]

(* main.py:101-103 and 109-113: the target resolves and the iteration over
   the chat starts, newest message first *)
GetTarget ==
    /\ Stay("get_target", "iter")
    /\ pending' = IterationOrder(chat)
    /\ UNCHANGED <<faults, seen, messages, matching_messages,
                   skipped_messages, cur, matching_keywords>>

(* main.py:104-106 *)
GetTargetFails ==
    Leave("get_target", "target_not_found") /\ Fault /\ UNCHANGED loopVars

(* iter_messages raises: the blanket handler, main.py:200-201 *)
IterFails ==
    /\ Leave("iter", "iter_error")
    /\ pending # <<>>
    /\ Fault
    /\ UNCHANGED loopVars

(* the iterator is exhausted, main.py:113 and 190-198 *)
IterDone ==
    /\ Leave("iter", "completed")
    /\ pending = <<>>
    /\ UNCHANGED <<faults, loopVars>>

Deliver(id) ==
    /\ pending # <<>>
    /\ id = Head(pending)
    /\ seen' = Append(seen, id)

(* main.py:115-116: the first message older than the cutoff ends the loop *)
IterBreak ==
    /\ Leave("iter", "completed")
    /\ \E id \in 1..Len(chat) :
          /\ Deliver(id)
          /\ ~InRange(chat[id].date, cutoff_time)
          /\ pending' = Tail(pending)
    /\ UNCHANGED <<faults, messages, matching_messages, skipped_messages,
                   cur, matching_keywords>>

(* main.py:118: `if message.text:` has no else branch, the loop goes on
   with the next message *)
TextlessEndsLoop == "finally"

AfterTextless == "iter"

(* main.py:118: a message without text is passed over *)
IterNoText ==
    /\ Stay("iter", AfterTextless)
    /\ \E id \in 1..Len(chat) :
          /\ Deliver(id)
          /\ InRange(chat[id].date, cutoff_time)
          /\ chat[id].text = <<>>
          /\ pending' = Tail(pending)
    /\ UNCHANGED <<faults, messages, matching_messages, skipped_messages,
                   cur, matching_keywords>>

(* main.py:119-145: a text message that matches no keyword *)
IterNoMatch ==
    /\ Stay("iter", "iter")
    /\ \E id \in 1..Len(chat) :
          /\ Deliver(id)
          /\ InRange(chat[id].date, cutoff_time)
          /\ chat[id].text # <<>>
          /\ MatchKeywords(chat[id].text, KEYWORDS) = <<>>
          /\ messages' = Append(messages, id)
          /\ matching_keywords' = MatchKeywords(chat[id].text, KEYWORDS)
          /\ pending' = Tail(pending)
    /\ UNCHANGED <<faults, matching_messages, skipped_messages, cur>>

(* main.py:145-150: a match that is already in the store *)
IterSkip ==
    /\ Stay("iter", "iter")
    /\ \E id \in 1..Len(chat) :
          /\ Deliver(id)
          /\ InRange(chat[id].date, cutoff_time)
          /\ chat[id].text # <<>>
          /\ MatchKeywords(chat[id].text, KEYWORDS) # <<>>
          /\ AlreadyForwarded(id, forwarded_message_ids)
          /\ messages' = Append(messages, id)
          /\ matching_keywords' = MatchKeywords(chat[id].text, KEYWORDS)
          /\ skipped_messages' = skipped_messages + 1
          /\ pending' = Tail(pending)
    /\ UNCHANGED <<faults, matching_messages, cur>>

(* main.py:145-177: a new match, about to be forwarded *)
IterMatch ==
    /\ Stay("iter", "send")
    /\ \E id \in 1..Len(chat) :
          /\ Deliver(id)
          /\ InRange(chat[id].date, cutoff_time)
          /\ chat[id].text # <<>>
          /\ MatchKeywords(chat[id].text, KEYWORDS) # <<>>
          /\ ~AlreadyForwarded(id, forwarded_message_ids)
          /\ messages' = Append(messages, id)
          /\ matching_keywords' = MatchKeywords(chat[id].text, KEYWORDS)
          /\ matching_messages' = Append(matching_messages, id)
          /\ cur' = id
          /\ pending' = Tail(pending)
    /\ UNCHANGED <<faults, skipped_messages>>

(* Where the per-message handler, main.py:187-188, leaves the cycle: back
   in the loop over the messages *)
AbortCycle == "finally"

StoreAfterError == "add"

AfterForwardError == "iter"

Call(from, to, op, ok) ==
    /\ pc = from
    /\ pc' = to
    /\ sent' = Append(sent, <<op, cur, ok>>)
    /\ delivered' = (IF op = "forward" /\ ok THEN delivered \cup {cur}
                     ELSE delivered)
    /\ UNCHANGED <<cfgVars, chat, clock, schedVars, cutoff_time, loaded_ids,
                   pending, seen, messages, matching_messages,
                   skipped_messages, matching_keywords, disconnects,
                   load_call, timeline, exit_path>>

(* main.py:178 *)
SendHeader ==
    /\ Call("send", "forward", "header", TRUE)
    /\ UNCHANGED <<file, faults, forwarded_message_ids, cur, histVars>>

(* send_message raises: the per-message handler, main.py:187-188 *)
SendHeaderFails ==
    /\ Call("send", AfterForwardError, "header", FALSE)
    /\ Fault
    /\ cur' = 0
    /\ failed_ids' = failed_ids \cup {cur}
    /\ UNCHANGED <<file, forwarded_message_ids, forwarded_ok,
                   forwarded_before, store_truncated>>

(* main.py:181 *)
Forward ==
    /\ Call("forward", "add", "forward", TRUE)
    /\ UNCHANGED <<file, faults, forwarded_message_ids, cur, histVars>>

(* forward_messages raises: the per-message handler, main.py:187-188 *)
ForwardFails ==
    /\ Call("forward", AfterForwardError, "forward", FALSE)
    /\ Fault
    /\ cur' = 0
    /\ failed_ids' = failed_ids \cup {cur}
    /\ UNCHANGED <<file, forwarded_message_ids, forwarded_ok,
                   forwarded_before, store_truncated>>

(* main.py:185: add_forwarded_message *)
Add ==
    /\ Call("add", "iter", "add", TRUE)
    /\ forwarded_message_ids' =
           add_forwarded_message(forwarded_message_ids, cur).ids
    /\ file' \in add_forwarded_message(forwarded_message_ids, cur).files
    /\ cur' = 0
    /\ forwarded_ok' = forwarded_ok \cup {cur}
    /\ failed_ids' = failed_ids \ {cur}
    /\ UNCHANGED <<faults, forwarded_before, store_truncated>>

(* open(..., "w") raises in save_forwarded_messages, main.py:56: the id is
   in the in-memory set, the file is as it was; the per-message handler
   catches the error *)
AddOpenFails ==
    /\ Call("add", "iter", "add", FALSE)
    /\ Fault
    /\ forwarded_message_ids' = forwarded_message_ids \cup {cur}
    /\ cur' = 0
    /\ failed_ids' = failed_ids \ {cur}
    /\ UNCHANGED <<file, forwarded_ok, forwarded_before, store_truncated>>

(* json.dump raises after open() has truncated the file, main.py:56-57 *)
AddWriteFails ==
    /\ Call("add", "iter", "add", FALSE)
    /\ Fault
    /\ forwarded_message_ids' = forwarded_message_ids \cup {cur}
    /\ file' = InvalidFile
    /\ cur' = 0
    /\ store_truncated' = TRUE
    /\ failed_ids' = failed_ids \ {cur}
    /\ UNCHANGED <<forwarded_ok, forwarded_before>>

(* Whether an exception is still on its way out when `finally` has run:
   `except Exception`, main.py:200, has caught whatever the try block raised,
   and the entity handlers, main.py:96-98 and 104-106, return *)
PropagatesEntityErrors(how) == how \in {"chat_not_found", "target_not_found"}

Propagates(how) == FALSE

(* main.py:203-204, then back in run_scheduler *)
Disconnect ==
    /\ pc = "finally"
    /\ disconnects' = disconnects + 1
    /\ IF Propagates(exit_path) THEN Raised ELSE Returned
    /\ UNCHANGED <<cfgVars, delivered, file, chat, clock, cycles, faults,
                   cutoff_time, forwarded_message_ids, loaded_ids, loopVars,
                   sent, histVars, load_call, exit_path>>

(* disconnect() raises inside `finally`: the error leaves the cycle *)
DisconnectFails ==
    /\ pc = "finally"
    /\ Fault
    /\ disconnects' = disconnects + 1
    /\ Raised
    /\ UNCHANGED <<cfgVars, delivered, file, chat, clock, cycles, cutoff_time,
                   forwarded_message_ids, loaded_ids, loopVars, sent,
                   histVars, load_call, exit_path>>

(* asyncio.sleep, main.py:305 and 313; the cycle's locals are gone *)
Sleep ==
    /\ pc = "sleep"
    /\ pc' = "run"
    /\ clock' = clock + (sleep_for \div TimeUnit)
    /\ cutoff_time' = 0
    /\ forwarded_message_ids' = {}
    /\ loaded_ids' = {}
    /\ pending' = <<>>
    /\ seen' = <<>>
    /\ messages' = <<>>
    /\ matching_messages' = <<>>
    /\ skipped_messages' = 0
    /\ cur' = 0
    /\ matching_keywords' = <<>>
    /\ sent' = <<>>
    /\ disconnects' = 0
    /\ forwarded_before' = forwarded_ok
    /\ load_call' = NoLoad
    /\ exit_path' = "none"
    /\ timeline' = Append(timeline, <<"sleep", sleep_for>>)
    /\ UNCHANGED <<cfgVars, delivered, file, chat, faults, schedVars,
                   forwarded_ok, failed_ids, store_truncated>>

(* Ctrl+C while the loop sleeps: main.py:307-309 *)
Interrupt ==
    /\ pc = "sleep"
    /\ pc' = "stopped"
    /\ UNCHANGED <<cfgVars, delivered, file, chat, clock, faults, schedVars,
                   cutoff_time, forwarded_message_ids, loaded_ids, loopVars,
                   sent, disconnects, histVars, load_call, timeline,
                   exit_path>>

(* Every step but a raising load_forwarded_messages *)
NextLoaded ==
    \/ PostMessage
    \/ PollStart
    \/ CreateClientFails
    \/ Connect
    \/ ConnectFails
    \/ Authorized
    \/ NotAuthorized
    \/ GetChat
    \/ GetChatFails
    \/ GetTarget
    \/ GetTargetFails
    \/ IterFails
    \/ IterDone
    \/ IterBreak
    \/ IterNoText
    \/ IterNoMatch
    \/ IterSkip
    \/ IterMatch
    \/ SendHeader
    \/ SendHeaderFails
    \/ Forward
    \/ ForwardFails
    \/ Add
    \/ AddOpenFails
    \/ AddWriteFails
    \/ Disconnect
    \/ DisconnectFails
    \/ Sleep
    \/ Interrupt

Next == LoadRaises \/ NextLoaded

Spec == Init /\ [][Next]_vars

(* The program runs on: a cycle that can start does start, every call of a
   cycle returns or raises, and a sleep ends (unless it is interrupted). *)
StartCycle == PollStart \/ CreateClientFails \/ LoadRaises

CycleStep ==
    \/ Connect \/ ConnectFails \/ Authorized \/ NotAuthorized
    \/ GetChat \/ GetChatFails \/ GetTarget \/ GetTargetFails
    \/ IterFails \/ IterDone \/ IterBreak \/ IterNoText \/ IterNoMatch
    \/ IterSkip \/ IterMatch
    \/ SendHeader \/ SendHeaderFails \/ Forward \/ ForwardFails
    \/ Add \/ AddOpenFails \/ AddWriteFails
    \/ Disconnect \/ DisconnectFails

SpecLive ==
    /\ Init
    /\ [][Next]_vars
    /\ WF_vars(StartCycle)
    /\ WF_vars(CycleStep)
    /\ WF_vars(Sleep)

(* The same program, started with no store file: no load can raise *)
InitFresh == Init /\ file = AbsentFile

SpecFresh == InitFresh /\ [][NextLoaded]_vars

----------------------------------------------------------------------------
(* The matcher on every keyword configuration and text within the bounds:
   a cycle stands in its loop before one message dated at the cutoff, whose
   id the loaded store holds or not. *)
InitMatch ==
    /\ KEYWORDS \in {ParseKeywords(c) : c \in StringsUpTo(MaxCfgLen)}
    /\ \E text \in StringsUpTo(MaxTextLen) :
          chat = <<[date |-> InitialClock - Window, text |-> text]>>
    /\ forwarded_message_ids \in {{}, {1}}
    /\ loaded_ids = forwarded_message_ids
    /\ file = (IF forwarded_message_ids = {} THEN AbsentFile
               ELSE ArrayFile(<<1>>))
    /\ clock = InitialClock
    /\ cutoff_time = InitialClock - Window
    /\ pc = "iter"
    /\ cycles = 1
    /\ pending = <<1>>
    /\ load_call = [from |-> file.kind, raised |-> FALSE]
    /\ faults = 0
    /\ sleep_for = 0
    /\ outcome = "none"
    /\ seen = <<>>
    /\ messages = <<>>
    /\ matching_messages = <<>>
    /\ skipped_messages = 0
    /\ cur = 0
    /\ matching_keywords = <<>>
    /\ sent = <<>>
    /\ disconnects = 0
    /\ forwarded_ok = {}
    /\ failed_ids = {}
    /\ forwarded_before = {}
    /\ store_truncated = FALSE
    /\ timeline = <<>>
    /\ delivered = {}
    /\ exit_path = "none"
    /\ environ = ValidEnviron
    /\ creds = LoadedCreds(ValidEnviron)
    /\ boot = "scheduler"
    /\ store_log = NoStoreLog

NextMatch == IterNoText \/ IterNoMatch \/ IterSkip \/ IterMatch

SpecMatch == InitMatch /\ [][NextMatch]_vars

----------------------------------------------------------------------------
(* The store functions on their own: any of them may be called next, with
   any set of identifiers.  store_log keeps the last two calls. *)
Ids == 1..MaxId

Logged(entry) ==
    store_log' = (IF store_log = <<>> THEN <<entry>>
                  ELSE <<store_log[Len(store_log)], entry>>)

mainVars == <<KEYWORDS, chat, clock, pc, cycles, faults, sleep_for, outcome,
              cutoff_time, loaded_ids, pending, seen, messages,
              matching_messages, skipped_messages, cur, matching_keywords,
              sent, disconnects, forwarded_ok, failed_ids, forwarded_before,
              store_truncated, load_call, timeline, delivered, exit_path,
              environ, creds, boot>>

InitStore ==
    /\ KEYWORDS = ParseKeywords(<<>>)
    /\ file = AbsentFile
    /\ chat = <<>>
    /\ clock = InitialClock
    /\ pc = "store"
    /\ cycles = 0
    /\ faults = 0
    /\ sleep_for = 0
    /\ outcome = "none"
    /\ cutoff_time = 0
    /\ forwarded_message_ids = {}
    /\ loaded_ids = {}
    /\ pending = <<>>
    /\ seen = <<>>
    /\ messages = <<>>
    /\ matching_messages = <<>>
    /\ skipped_messages = 0
    /\ cur = 0
    /\ matching_keywords = <<>>
    /\ sent = <<>>
    /\ disconnects = 0
    /\ forwarded_ok = {}
    /\ failed_ids = {}
    /\ forwarded_before = {}
    /\ store_truncated = FALSE
    /\ load_call = NoLoad
    /\ timeline = <<>>
    /\ delivered = {}
    /\ exit_path = "none"
    /\ environ = ValidEnviron
    /\ creds = LoadedCreds(ValidEnviron)
    /\ boot = "scheduler"
    /\ store_log = NoStoreLog

(* save_forwarded_messages(S) *)
StoreSave ==
    /\ pc = "store"
    /\ \E S \in SUBSET Ids :
          /\ file' \in save_forwarded_messages(S)
          /\ forwarded_message_ids' = S
          /\ Logged([op |-> "save", arg |-> 0, ids |-> S,
                     items |-> file'.items])
    /\ UNCHANGED mainVars

(* forwarded_message_ids = load_forwarded_messages() *)
StoreLoad ==
    /\ pc = "store"
    /\ ~load_forwarded_messages(file).raised
    /\ forwarded_message_ids' = load_forwarded_messages(file).ids
    /\ Logged([op |-> "load", arg |-> 0,
               ids |-> load_forwarded_messages(file).ids,
               items |-> file.items])
    /\ UNCHANGED <<mainVars, file>>

(* add_forwarded_message(forwarded_message_ids, id) *)
StoreAdd ==
    /\ pc = "store"
    /\ \E id \in Ids :
          /\ forwarded_message_ids' =
                 add_forwarded_message(forwarded_message_ids, id).ids
          /\ file' \in add_forwarded_message(forwarded_message_ids, id).files
          /\ Logged([op |-> "add", arg |-> id,
                     ids |-> add_forwarded_message(forwarded_message_ids,
                                                   id).ids,
                     items |-> file'.items])
    /\ UNCHANGED mainVars

NextStore == StoreSave \/ StoreLoad \/ StoreAdd

SpecStore == InitStore /\ [][NextStore]_vars

----------------------------------------------------------------------------
(* The start of the process, main.py:27-31 and 316-321, under every setting
   of the three credentials in the environment. *)
bootFrame == <<KEYWORDS, file, chat, clock, pc, cycles, faults, sleep_for,
               outcome, cutoff_time, forwarded_message_ids, loaded_ids,
               pending, seen, messages, matching_messages, skipped_messages,
               cur, matching_keywords, sent, disconnects, forwarded_ok,
               failed_ids, forwarded_before, store_truncated, load_call,
               timeline, delivered, exit_path, store_log>>

InitConfig ==
    /\ environ \in [API_ID : ApiIdValues, API_HASH : ApiHashValues,
                    PHONE_NUMBER : PhoneValues]
    /\ creds = NoCreds
    /\ boot = "import"
    /\ KEYWORDS = ParseKeywords(<<>>)
    /\ file = AbsentFile
    /\ chat = <<>>
    /\ clock = InitialClock
    /\ pc = "boot"
    /\ cycles = 0
    /\ faults = 0
    /\ sleep_for = 0
    /\ outcome = "none"
    /\ cutoff_time = 0
    /\ forwarded_message_ids = {}
    /\ loaded_ids = {}
    /\ pending = <<>>
    /\ seen = <<>>
    /\ messages = <<>>
    /\ matching_messages = <<>>
    /\ skipped_messages = 0
    /\ cur = 0
    /\ matching_keywords = <<>>
    /\ sent = <<>>
    /\ disconnects = 0
    /\ forwarded_ok = {}
    /\ failed_ids = {}
    /\ forwarded_before = {}
    /\ store_truncated = FALSE
    /\ load_call = NoLoad
    /\ timeline = <<>>
    /\ delivered = {}
    /\ exit_path = "none"
    /\ store_log = NoStoreLog

(* main.py:29-31 run without an exception *)
ImportModule ==
    /\ boot = "import"
    /\ ~ParseInt(environ.API_ID).raised
    /\ creds' = LoadedCreds(environ)
    /\ boot' = "test"
    /\ UNCHANGED <<bootFrame, environ>>

(* int(os.getenv("API_ID")) raises at import, main.py:29: nothing catches
   it and the interpreter exits with a traceback *)
ImportCrashes ==
    /\ boot = "import"
    /\ ParseInt(environ.API_ID).raised
    /\ boot' = "crashed"
    /\ UNCHANGED <<bootFrame, environ, creds>>

(* `not API_ID or not API_HASH or not PHONE_NUMBER`, main.py:211 *)
CredentialsMissing ==
    \/ FalsyInt(creds.API_ID)
    \/ Falsy(creds.API_HASH)
    \/ Falsy(creds.PHONE_NUMBER)

(* test_telegram_connection reports and returns early, main.py:211-223 *)
ReportMissing ==
    /\ boot = "test"
    /\ CredentialsMissing
    /\ boot' = "reported"
    /\ UNCHANGED <<bootFrame, environ, creds>>

(* test_telegram_connection goes on to connect, main.py:225-287 *)
TestConnection ==
    /\ boot = "test"
    /\ ~CredentialsMissing
    /\ boot' = "tested"
    /\ UNCHANGED <<bootFrame, environ, creds>>

(* asyncio.run(run_scheduler()), main.py:321 *)
StartScheduler ==
    /\ boot \in {"reported", "tested"}
    /\ boot' = "scheduler"
    /\ UNCHANGED <<bootFrame, environ, creds>>

NextConfig ==
    \/ ImportModule
    \/ ImportCrashes
    \/ ReportMissing
    \/ TestConnection
    \/ StartScheduler

SpecConfig == InitConfig /\ [][NextConfig]_vars

----------------------------------------------------------------------------
(* What the cycle's calls were *)

Calls(op) == {i \in 1..Len(sent) : sent[i][1] = op}
CalledWith(op) == {sent[i][2] : i \in Calls(op)}
Succeeded(op) == {sent[i][2] : i \in {j \in Calls(op) : sent[j][3]}}
Attempted == CalledWith("header") \cup CalledWith("forward")

InCycle == pc \in {"connect", "auth", "get_chat", "get_target", "iter",
                   "send", "forward", "add", "finally"}

Matches(id) == \E i \in 1..Len(KEYWORDS) :
                   Contains(Lower(KEYWORDS[i]), Lower(chat[id].text))

----------------------------------------------------------------------------
(* C1: in any poll cycle, a message whose identifier is in the duplicate
   store loaded at the start of that cycle is never passed to send_message
   or forward_messages, whatever the earlier cycles did. *)
C1_DuplicateSuppression == Attempted \cap loaded_ids = {}

(* a message of the loaded store, in the window and matching, was delivered
   and skipped *)
C1_Witness ==
    /\ cycles >= 2
    /\ \E id \in loaded_ids \cap Range(seen) :
          /\ InRange(chat[id].date, cutoff_time)
          /\ Matches(id)
          /\ skipped_messages > 0

(* The ids the store file holds, as the next load would return them *)
Persisted == load_forwarded_messages(file).ids

(* The matching text messages in range that the cycle has taken from the
   iterator and that the loaded store holds *)
SkipSet == {id \in Range(messages) : Matches(id) /\ id \in loaded_ids}

(* C2: starting with no store file, load_forwarded_messages returns the
   empty set; the first matching message within the window is forwarded and
   its id is written to the store file in that cycle; in every later cycle
   in which the message is still within the window it is counted as skipped
   and not forwarded again.  The scenario is one whose calls succeed: the
   write is that of a completed add_forwarded_message, and the later cycles
   are those that find the store file as the completed writes left it (no
   failed write has cut it off since). *)
FirstCycleForwardsMatches ==
    cycles = 1 =>
        /\ loaded_ids = {}
        /\ skipped_messages = 0
        /\ \A id \in Range(messages) :
              Matches(id) => id = cur \/ id \in CalledWith("header")

AddWritesTheId ==
    (Succeeded("add")' \ Succeeded("add") # {}) =>
        /\ cur \in Succeeded("header") \cap Succeeded("forward")
        /\ cur \in Persisted'
        /\ pc' = "iter"

LaterCyclesSkip ==
    ~store_truncated =>
        /\ skipped_messages = Cardinality(SkipSet)
        /\ \A id \in forwarded_before :
              /\ id \notin Attempted
              /\ id \in Range(messages) => id \in SkipSet

FailedCall ==
    /\ Len(sent') = Len(sent) + 1
    /\ sent'[Len(sent')][1] \in {"header", "forward"}
    /\ ~sent'[Len(sent')][3]

Delivered(id) ==
    /\ pc = "iter"
    /\ pending # <<>>
    /\ id = Head(pending)
    /\ seen' = Append(seen, id)

C3_ForwardFailureIsPerMessage ==
    [][/\ FailedCall =>
            /\ pc' = "iter"
            /\ pending' = pending
            /\ timeline' = timeline
            /\ file' = file
            /\ cur \notin Persisted'
       /\ \A id \in failed_ids :
            (Delivered(id) /\ InRange(chat[id].date, cutoff_time))
                => (pc' = "send" /\ cur' = id)]_vars

(* a later cycle attempts again a message whose forward failed before *)
C3_Witness ==
    /\ cycles >= 2
    /\ pc = "send"
    /\ cur \in failed_ids
    /\ pending # <<>>

(* C4: the scheduler alternates poll and sleep: a cycle that returns is
   followed by the one-hour sleep, a cycle an exception escapes from by the
   ten-minute sleep, and no cycle starts without a sleep since the last. *)
C4_PollSleepAlternation ==
    /\ \A i \in 1..(Len(timeline) - 1) :
          /\ timeline[i] = <<"cycle", "returned">>
                => timeline[i + 1] = <<"sleep", SLEEP_NORMAL>>
          /\ timeline[i] = <<"cycle", "raised">>
                => timeline[i + 1] = <<"sleep", SLEEP_ERROR>>
          /\ timeline[i][1] = "sleep" => timeline[i + 1][1] = "cycle"
    /\ InCycle =>
          timeline = <<>> \/ timeline[Len(timeline)][1] = "sleep"
    /\ Len(timeline) > 0 => timeline[1][1] = "cycle"

(* a cycle returned and the hour was slept, the next cycle raised and the
   ten minutes were slept *)
C4_Witness ==
    timeline = <<(<<"cycle", "returned">>), (<<"sleep", SLEEP_NORMAL>>),
                 (<<"cycle", "raised">>), (<<"sleep", SLEEP_ERROR>>)>>

(* C5: a message dated exactly at the cutoff is processed as within range;
   the iteration stops at the first message strictly older than the cutoff,
   and nothing is taken from the iterator after it. *)
C5_CutoffBoundary ==
    /\ \A i \in 1..Len(seen) :
          /\ chat[seen[i]].date < cutoff_time =>
                /\ i = Len(seen)
                /\ pc \in {"finally", "sleep", "stopped"}
                /\ seen[i] \notin Range(messages)
          /\ (chat[seen[i]].date >= cutoff_time /\ chat[seen[i]].text # <<>>)
                => seen[i] \in Range(messages)
    /\ \A id \in Range(messages) \cup Attempted :
          chat[id].date >= cutoff_time

(* a message dated at the cutoff was processed, and the older message after
   it ended the loop *)
C5_Witness ==
    /\ Len(seen) = 2
    /\ chat[seen[1]].date = cutoff_time
    /\ seen[1] \in Range(messages)
    /\ chat[seen[2]].date < cutoff_time
    /\ pc = "finally"

(* C7, as stated: with an empty string among the keywords every message in
   the window matches, so each is forwarded or counted as skipped. *)
HasEmptyKeyword == \E i \in 1..Len(KEYWORDS) : KEYWORDS[i] = <<>>

InWindowSeen == {id \in Range(seen) : chat[id].date >= cutoff_time}

ForwardPath == Range(matching_messages)

C7_EmptyKeywordMatchesEveryMessage ==
    HasEmptyKeyword =>
        /\ \A id \in InWindowSeen :
              id \in ForwardPath \/ id \in SkipSet
        /\ skipped_messages = Cardinality(SkipSet)

(* C7, amended: with an empty string among the keywords every message in
   the window that has text matches, so each is either taken to the forward
   path (its id not in the store) or counted as skipped (its id in the
   store); a message without text is neither. *)
C7_EmptyKeywordMatchesEveryText ==
    HasEmptyKeyword =>
        /\ \A id \in InWindowSeen :
              /\ chat[id].text # <<>> =>
                    /\ id \in ForwardPath \cup SkipSet
                    /\ id \in ForwardPath <=> id \notin loaded_ids
                    /\ id \in ForwardPath => id = cur \/ id \in CalledWith("header")
              /\ chat[id].text = <<>> => id \notin ForwardPath \cup SkipSet
        /\ skipped_messages = Cardinality(SkipSet)

(* under an empty keyword, a text that holds no other keyword is forwarded,
   another is skipped as already stored, and a message without text is
   passed over *)
C7_Witness ==
    /\ HasEmptyKeyword
    /\ \E id \in InWindowSeen : chat[id].text = <<>>
    /\ \E id \in InWindowSeen \cap (ForwardPath \cup SkipSet) :
          chat[id].text = <<"b">>

(* C8: load_forwarded_messages never raises to its caller and returns the
   empty set whenever the file is absent or its content is malformed. *)
C8_LoadFailsSoft ==
    /\ ~load_call.raised
    /\ load_call.from \in {"absent", "invalid", "number", "object", "nested"}
          => loaded_ids = {}

(* C6: the matched keywords computed for a text message are exactly the
   keywords whose lowercase form is a substring of the lowercase text, and
   the message is treated as a match (forwarded or skipped) if and only if
   there is one. *)
IsSubstring(a, b) ==
    \E i, j \in 0..Len(b) : i <= j /\ SubSeq(b, i + 1, j) = a

KeywordOccurs(k, text) == IsSubstring(Lower(k), Lower(text))

Occurring(text) ==
    LET Test(k) == KeywordOccurs(k, text) IN SelectSeq(KEYWORDS, Test)

C6_KeywordMatcher ==
    /\ messages # <<>> =>
          matching_keywords = Occurring(chat[messages[Len(messages)]].text)
    /\ Range(matching_messages) =
          {id \in Range(messages) :
              Occurring(chat[id].text) # <<>> /\ id \notin loaded_ids}
    /\ skipped_messages =
          Cardinality({id \in Range(messages) :
              Occurring(chat[id].text) # <<>> /\ id \in loaded_ids})

(* of two keywords, the upper-case one is found in a lower-case text and
   the other is not *)
C6_Witness ==
    /\ pc = "send"
    /\ KEYWORDS = <<(<<"A">>), (<<"b">>)>>
    /\ chat[cur].text = <<"a", "A">>
    /\ matching_keywords = <<(<<"A">>)>>

(* C9: save_forwarded_messages(S) followed by load_forwarded_messages()
   returns S, for every set S of identifiers, the empty one included. *)
C9_SaveLoadRoundTrip ==
    (/\ Len(store_log) = 2
     /\ store_log[1].op = "save"
     /\ store_log[2].op = "load")
        => /\ store_log[2].ids = store_log[1].ids
           /\ forwarded_message_ids = store_log[1].ids

(* a set of several identifiers, written in another order than the
   ascending one, was read back *)
C9_Witness ==
    /\ Len(store_log) = 2
    /\ store_log[1].op = "save"
    /\ store_log[2].op = "load"
    /\ store_log[2].ids = Ids
    /\ file.items[1] = MaxId

(* C10: add_forwarded_message called twice with the same id leaves the
   in-memory set and the persisted set as one call left them, and the
   persisted array has no entry twice. *)
C10_AddIsIdempotent ==
    (/\ Len(store_log) = 2
     /\ store_log[1].op = "add"
     /\ store_log[2].op = "add"
     /\ store_log[1].arg = store_log[2].arg)
        => /\ store_log[2].ids = store_log[1].ids
           /\ Range(store_log[2].items) = Range(store_log[1].items)
           /\ Range(store_log[2].items) = store_log[2].ids
           /\ Len(store_log[2].items) = Cardinality(store_log[2].ids)

(* the same id was added twice to a store that held another id *)
C10_Witness ==
    /\ Len(store_log) = 2
    /\ store_log[1].op = "add"
    /\ store_log[2].op = "add"
    /\ store_log[1].arg = store_log[2].arg
    /\ Cardinality(store_log[2].ids) = 2

(* C13: when one of API_ID, API_HASH, PHONE_NUMBER is missing from the
   environment, the process does not crash and the credential check reports
   it and returns early; for each of the three on its own. *)
Missing(name) == ~environ[name].set

C13_MissingCredentialIsReported ==
    \A name \in {"API_ID", "API_HASH", "PHONE_NUMBER"} :
        Missing(name) => boot \in {"import", "test", "reported", "scheduler"}

(* C11, as stated: when resolving the chat or the forward target fails, the
   cycle ends without raising to the scheduler, so the one-hour sleep
   follows, and it has iterated no message, sent no header, forwarded
   nothing and left the store file as it was. *)
EntityError == exit_path \in {"chat_not_found", "target_not_found"}

NothingDone ==
    /\ pending = <<>>
    /\ seen = <<>>
    /\ messages = <<>>
    /\ matching_messages = <<>>
    /\ skipped_messages = 0
    /\ sent = <<>>
    /\ forwarded_message_ids = loaded_ids

C11_EntityErrorEndsCycleQuietly ==
    EntityError =>
        /\ NothingDone
        /\ pc \in {"finally", "sleep", "stopped"}
        /\ pc \in {"sleep", "stopped"} =>
              outcome = "returned" /\ sleep_for = SLEEP_NORMAL

(* C11, amended: when resolving the chat or the forward target fails, the
   cycle goes straight to its disconnect, having iterated no message, sent
   no header, forwarded nothing and left the store file as it was; it then
   returns to the scheduler and the one-hour sleep follows, unless the
   disconnect itself raises: that error reaches the scheduler and the
   ten-minute sleep follows. *)
EntityErrorStep ==
    (EntityError \/ EntityError') =>
        /\ file' = file
        /\ (pc = "finally" /\ pc' # pc) =>
              /\ disconnects' = disconnects + 1
              /\ pc' = "sleep"
              /\ IF faults' = faults
                 THEN outcome' = "returned" /\ sleep_for' = SLEEP_NORMAL
                 ELSE outcome' = "raised" /\ sleep_for' = SLEEP_ERROR

C11_EntityErrorSkipsToDisconnect ==
    /\ [](EntityError => (NothingDone /\ pc \in {"finally", "sleep", "stopped"}))
    /\ [][EntityErrorStep]_vars

(* the forward target did not resolve while a matching message stood in the
   window, and the cycle returned to the one-hour sleep *)
C11_Witness ==
    /\ exit_path = "target_not_found"
    /\ pc = "sleep"
    /\ outcome = "returned"
    /\ \E id \in 1..Len(chat) :
          Matches(id) /\ InRange(chat[id].date, cutoff_time)

(* C12: no error ends the scheduler loop: whatever was raised during a
   cycle (by the store, the client's construction, the connection, the
   entity resolution, the iteration, a send or forward, the disconnect), the
   loop starts another poll cycle, unless an interrupt stops it; and nothing
   but an interrupt during the sleep stops it. *)
StoppedOnlyByInterrupt ==
    (pc' = "stopped" /\ pc # "stopped") =>
        /\ pc = "sleep"
        /\ UNCHANGED <<file, timeline, outcome, faults, cycles>>

C12_NoErrorIsFatal ==
    /\ \A n \in 1..(MaxCycles - 1) :
          (cycles = n) ~> (cycles = n + 1 \/ pc = "stopped")
    /\ [](pc \in {"run", "connect", "auth", "get_chat", "get_target", "iter",
                   "send", "forward", "add", "finally", "sleep", "stopped"})
    /\ [][StoppedOnlyByInterrupt]_vars

(* a cycle raised to the scheduler, and after the ten-minute sleep the next
   cycle is under way *)
C12_Witness ==
    /\ cycles = 2
    /\ pc = "connect"
    /\ Len(timeline) = 2
    /\ timeline[1] = <<"cycle", "raised">>
    /\ faults > 0

(* C14: an error raised during a cycle that is neither an entity-resolution
   error nor a per-message send/forward error (a failing connect, a failing
   iteration over the chat) is caught at the scheduler loop and followed by
   the ten-minute sleep, not the one-hour one. *)
CycleError == exit_path \in {"connect_error", "iter_error"}

C14_CycleErrorsGetShortRetry ==
    (CycleError /\ pc \in {"sleep", "stopped"}) =>
        /\ outcome = "raised"
        /\ sleep_for = SLEEP_ERROR

(* C15: within one cycle the messages are handled in the order the client
   delivers them, newest first; for a message that is forwarded the header
   is sent before the forward and the id is added to the store only after
   the forward; and the steps for one message are over, completed or failed,
   before the next message is taken. *)
Descending(q) == \A i, j \in 1..Len(q) : i < j => q[i] > q[j]

Terminal(call) == call[1] = "add" \/ ~call[3]

HeaderIds ==
    LET IsHeader(call) == call[1] = "header"
        headers == SelectSeq(sent, IsHeader)
    IN  [i \in 1..Len(headers) |-> headers[i][2]]

C15_OrderWithinCycle ==
    /\ Descending(seen)
    /\ \A i, j \in 1..Len(seen) :
          i < j => chat[seen[i]].date >= chat[seen[j]].date
    /\ Descending(matching_messages)
    /\ Range(matching_messages) \subseteq Range(seen)
    /\ HeaderIds = (IF pc = "send"
                    THEN SubSeq(matching_messages, 1, Len(matching_messages) - 1)
                    ELSE matching_messages)
    /\ \A i \in 1..Len(sent) :
          /\ sent[i][1] = "header" =>
                i = 1 \/ (Terminal(sent[i - 1]) /\ sent[i - 1][2] > sent[i][2])
          /\ sent[i][1] = "forward" =>
                i > 1 /\ sent[i - 1] = <<"header", sent[i][2], TRUE>>
          /\ sent[i][1] = "add" =>
                i > 1 /\ sent[i - 1] = <<"forward", sent[i][2], TRUE>>
    /\ pc \in {"send", "forward", "add"} =>
          /\ cur = seen[Len(seen)]
          /\ cur = matching_messages[Len(matching_messages)]
    /\ pc = "iter" =>
          /\ cur = 0
          /\ sent = <<>> \/ Terminal(sent[Len(sent)])

(* two messages were forwarded in one cycle, the newer one first, each with
   its header, its forward and its store write *)
C15_Witness ==
    /\ seen = <<2, 1>>
    /\ sent = <<(<<"header", 2, TRUE>>), (<<"forward", 2, TRUE>>),
                (<<"add", 2, TRUE>>), (<<"header", 1, TRUE>>),
                (<<"forward", 1, TRUE>>), (<<"add", 1, TRUE>>)>>

(* C16: identifiers are never removed from the duplicate store: whatever
   the cycles do, failures and malformed reads included, every identifier
   the store file holds after one step is still held after the next. *)
C16_StoreOnlyGrows == [][Persisted \subseteq Persisted']_vars

(* C17: starting from an empty store, an identifier comes into the
   persisted store only for a message whose header send and whose forward
   both completed without error earlier in the cycle; a message that did
   not match, was skipped, or whose send or forward failed does not get its
   identifier added. *)
FailedAttempts ==
    {sent[i][2] : i \in {j \in Calls("header") \cup Calls("forward") : ~sent[j][3]}}

(* The in-memory set gains an id only at main.py:185, and then the id of the
   message whose forward has just succeeded *)
IdCreatedOnlyByForward ==
    (pc # "run" /\ ~(forwarded_message_ids' \subseteq forwarded_message_ids)) =>
        /\ pc = "add"
        /\ forwarded_message_ids' = forwarded_message_ids \cup {cur}
        /\ cur \in Succeeded("header") \cap Succeeded("forward")
        /\ cur \notin FailedAttempts
        /\ cur \in Range(matching_messages)
        /\ Matches(cur)
        /\ cur \notin loaded_ids

C17_StoredOnlyAfterForward ==
    /\ [](Persisted \cup forwarded_message_ids \subseteq delivered)
    /\ [][IdCreatedOnlyByForward]_vars

(* one message was forwarded and stored, another one's forward failed and
   its id is not in the store *)
C17_Witness ==
    /\ pc = "finally"
    /\ \E id \in Persisted : id \in Succeeded("forward")
    /\ \E id \in FailedAttempts : id \notin Persisted /\ Matches(id)

(* C18: a message within the window that has no text is not counted, not
   matched, not forwarded and not stored, and it does not stop the
   iteration: older text messages still within the window are processed. *)
Textless(id) == chat[id].text = <<>>

TextInWindow == {id \in InWindowSeen : ~Textless(id)}

TextlessStep ==
    \A id \in 1..Len(chat) :
        (Delivered(id) /\ InRange(chat[id].date, cutoff_time) /\ Textless(id))
            => /\ pc' = "iter"
               /\ pending' = Tail(pending)
               /\ UNCHANGED <<messages, matching_messages, skipped_messages,
                              sent, file, forwarded_message_ids>>

C18_TextlessMessagesAreIgnored ==
    /\ [](/\ \A id \in Range(seen) :
               Textless(id) =>
                   /\ id \notin Range(messages) \cup Range(matching_messages)
                   /\ id \notin Attempted \cup CalledWith("add")
                   /\ id \notin Persisted \cup forwarded_message_ids
           /\ Range(messages) = TextInWindow
           /\ Len(messages) = Cardinality(TextInWindow)
           /\ skipped_messages = Cardinality(SkipSet))
    /\ [][TextlessStep]_vars

(* a message without text was passed over and the older text message after
   it, still in the window, was processed *)
C18_Witness ==
    /\ Len(seen) = 2
    /\ Textless(seen[1])
    /\ InRange(chat[seen[1]].date, cutoff_time)
    /\ ~Textless(seen[2])
    /\ messages = <<seen[2]>>

(* C19: a cycle in which no forward succeeds (not authorized, an entity not
   resolved, nothing matching, every match already stored, every send or
   forward failing) leaves the store file as it was, and does not create it
   when it was absent: the file changes only in the store write that
   follows a successful forward. *)
FileWrittenOnlyAfterForward ==
    /\ Succeeded("forward") = {} => file' = file
    /\ file' # file =>
          /\ pc = "add"
          /\ cur \in Succeeded("header") \cap Succeeded("forward")
          /\ sent'[Len(sent')][1] = "add"

C19_NoForwardNoWrite == [][FileWrittenOnlyAfterForward]_vars

(* a cycle has ended whose only forward failed, and there is still no store
   file *)
C19_Witness ==
    /\ pc = "sleep"
    /\ file = AbsentFile
    /\ Succeeded("forward") = {}
    /\ \E i \in Calls("forward") : ~sent[i][3]

(* C20: a cycle that reaches the connect step disconnects the client
   exactly once before it returns or raises, on every path: not authorized,
   an entity not resolved, normal completion, an error caught by the blanket
   handler; and not before its work is over. *)
ReachedConnect == load_call.from # "none" /\ ~load_call.raised

CycleOver == pc \in {"sleep", "stopped"}

EndsThroughDisconnect ==
    (InCycle /\ ~InCycle') =>
        /\ pc = "finally"
        /\ pc' = "sleep"
        /\ exit_path \in {"connect_error", "not_authorized", "chat_not_found",
                          "target_not_found", "iter_error", "completed"}
        /\ disconnects = 0
        /\ disconnects' = 1

C20_DisconnectsExactlyOnce ==
    /\ [](InCycle => (ReachedConnect /\ disconnects = 0))
    /\ []((CycleOver /\ ReachedConnect) => disconnects = 1)
    /\ []((CycleOver /\ ~ReachedConnect) => disconnects = 0)
    /\ [][EndsThroughDisconnect]_vars

(* the iteration raised, the blanket handler caught it, and the cycle has
   returned with the client disconnected once *)
C20_Witness ==
    /\ pc = "sleep"
    /\ exit_path = "iter_error"
    /\ seen # <<>>
    /\ disconnects = 1

====
